---- MODULE Spec2Model ----
(***************************************************************************)
(* Model of cargo-geiger's scan drivers (scan/default.rs, scan/forbid.rs)  *)
(* and of its command line parsing (args.rs).                              *)
(*                                                                         *)
(* Spec      : one invocation of the JSON scan (full or forbid-only),      *)
(*             re-run on the same source tree and build plan.              *)
(* SpecArgs  : Args::parse_args applied to every bounded argument vector,   *)
(*             followed by Args::update_config.                            *)
(* SpecFeatures : parse_features applied to every bounded feature string,  *)
(*             and build_compile_options applied to the FeaturesArgs.      *)
(***************************************************************************)
EXTENDS Integers, Sequences, FiniteSets, TLC

\* ------------------------------------------------------------------ bounds
MaxPackages == 2
MaxPaths == 3
MaxRuns == 2
MaxArgs == 3
MaxFeatureChars == 4

PackageIds == 1..MaxPackages
Paths == 1..MaxPaths

\* The root package of the dependency graph (root_package_id).
RootPackageId == 1

\* The package whose source root is the longest matching prefix of path f.
Owner(f) == ((f - 1) % MaxPackages) + 1

OwnedPaths(p) == {f \in Paths : Owner(f) = p}

\* ------------------------------------------------------------ data model
\* RsFileMetrics: what the scanner records for one parsed file.
\* A file that forbids unsafe code holds none.
RsFileMetrics ==
    {m \in [forbids_unsafe : BOOLEAN, has_unsafe : BOOLEAN] :
        ~(m.forbids_unsafe /\ m.has_unsafe)}

\* PackageMetrics.rs_path_to_metrics: path -> metrics, for the files of the
\* package the scanner parsed, at least one: a package with no owned entry
\* has no PackageMetrics.
PackageMetricsOf(p) ==
    UNION {[S -> RsFileMetrics] : S \in (SUBSET OwnedPaths(p)) \ {{}}}

\* GeigerContext.package_id_to_metrics: package id -> PackageMetrics, for the
\* packages of which the scanner parsed a file.
GeigerContexts ==
    UNION {{c \in [D -> UNION {PackageMetricsOf(p) : p \in D}] :
               \A p \in D : c[p] \in PackageMetricsOf(p)} : D \in SUBSET PackageIds}

EmptyContext == [p \in {} |-> {}]

\* Graph: the packages reachable from the root.
Graphs == {g \in SUBSET PackageIds : RootPackageId \in g}

\* Result<HashSet<PathBuf>, RsResolveError> of resolve_rs_file_deps.
ResolverOutcomes ==
    {[ok |-> FALSE, files |-> {}]} \cup {[ok |-> TRUE, files |-> S] : S \in SUBSET Paths}

\* Result<GeigerContext, CliError> of find_unsafe.
ScannerOutcomes ==
    {[ok |-> FALSE, context |-> EmptyContext]}
        \cup {[ok |-> TRUE, context |-> c] : c \in GeigerContexts}

\* SafetyReport::default() / QuickSafetyReport::default().
DefaultReport ==
    [packages |-> [p \in {} |-> {}],
     packages_without_metrics |-> {},
     used_but_not_scanned_files |-> {}]

\* Result<ScanResult, CliError> before the function has returned.
NoResult == [returned |-> FALSE, ok |-> FALSE, scan_output_lines |-> <<>>, warning_count |-> 0]

\* ------------------------------------------------------- args (args.rs)
\* A string is the sequence of its words and of the separators (space,
\* comma) between them; a word holds no separator. The string of one word:
Str(word) == <<word>>

\* The command line tokens of the model: switches and options read at
\* different places of parse_args, the names of the output formats, a word
\* that names no format, a -Z flag cargo knows, a value of two words and the
\* empty string.
ArgTokens ==
    {Str(w) : w \in {"-a", "--color", "--features", "-q", "--update-readme",
                     "--target", "-Z", "-vv", "-v", "--verbose", "--output-format",
                     "Ascii", "GitHubMarkdown", "Json", "Utf8", "Ratio", "bogus",
                     "unstable-options"}}
        \cup {<<"a", " ", "b">>, <<>>}

ArgVectors == UNION {[1..n -> ArgTokens] : n \in 0..MaxArgs}

\* OutputFormat: the formats the help text lists.
OutputFormats == {"Ascii", "GitHubMarkdown", "Json", "Utf8", "Ratio"}

\* The characters of a --features value: the space, the comma and two letters.
FeatureChars == {" ", ",", "a", "b"}

\* Strings, as sequences of characters.
FeatureStrings == UNION {[1..n -> FeatureChars] : n \in 0..MaxFeatureChars}

\* Option<String>: the value of --features, if given.
RawFeatures ==
    {[some |-> FALSE, value |-> <<>>]} \cup {[some |-> TRUE, value |-> v] : v \in FeatureStrings}

\* FeaturesArgs::default()
DefaultFeaturesArgs ==
    [all_features |-> FALSE, features |-> <<>>, no_default_features |-> FALSE]

\* No CompileOptions built yet.
NoCompileOptions ==
    [built |-> FALSE,
     mode |-> [kind |-> "none", test |-> FALSE],
     cli_features |-> [features |-> {}, all_features |-> FALSE,
                       uses_default_features |-> FALSE]]

\* ------------------------------------------------ strings (args.rs)
RECURSIVE SplitOn(_, _)
\* str::split on the separators: the pieces between them, empty ones included.
SplitOn(str, seps) ==
    IF \A i \in DOMAIN str : str[i] \notin seps
    THEN <<str>>
    ELSE LET i == CHOOSE k \in DOMAIN str :
                      str[k] \in seps /\ \A j \in 1..(k - 1) : str[j] \notin seps
         IN <<SubSeq(str, 1, i - 1)>> \o SplitOn(SubSeq(str, i + 1, Len(str)), seps)

NotEmpty(str) == str # <<>>

\* Faulty variant: the empty pieces are kept.
ParseFeatures_Unfiltered(raw) ==
    SplitOn(IF raw.some THEN raw.value ELSE <<>>, {" "})

\* parse_features: unwrap_or_default().split(' ').filter(|f| !f.is_empty())
ParseFeatures(raw) ==
    SelectSeq(SplitOn(IF raw.some THEN raw.value ELSE <<>>, {" "}), NotEmpty)

\* ------------------------------------------------ parse_args (args.rs)
RECURSIVE IndexOf(_, _)
\* pico_args index_of: the keys are tried in the order given; the position of
\* the first token equal to the first key that occurs, or 0.
IndexOf(v, keys) ==
    IF keys = <<>> THEN 0
    ELSE IF \E i \in DOMAIN v : v[i] = Str(Head(keys))
         THEN CHOOSE i \in DOMAIN v :
                  v[i] = Str(Head(keys)) /\ \A j \in 1..(i - 1) : v[j] # Str(Head(keys))
         ELSE IndexOf(v, Tail(keys))

RemoveAt(v, i) == SubSeq(v, 1, i - 1) \o SubSeq(v, i + 1, Len(v))

\* raw_args.contains(keys): whether a key is present; the token found is
\* taken out of the vector.
Contains(v, keys) ==
    IF IndexOf(v, keys) = 0
    THEN [found |-> FALSE, rest |-> v]
    ELSE [found |-> TRUE, rest |-> RemoveAt(v, IndexOf(v, keys))]

\* raw_args.opt_value_from_str(keys) for a String or PathBuf: "none" when no
\* key is present, "err" when no token follows the key, else the token that
\* follows it, whatever it is; key and value are taken out of the vector.
OptValue(v, keys) ==
    LET i == IndexOf(v, keys)
    IN IF i = 0 THEN [status |-> "none", value |-> <<>>, rest |-> v]
       ELSE IF i = Len(v) THEN [status |-> "err", value |-> <<>>, rest |-> v]
       ELSE [status |-> "some", value |-> v[i + 1],
             rest |-> RemoveAt(RemoveAt(v, i), i)]

\* OutputFormat::from_str: the format a word names, or "Err".
OutputFormatFromStr(str) ==
    IF \E f \in OutputFormats : str = Str(f)
    THEN CHOOSE f \in OutputFormats : str = Str(f)
    ELSE "Err"

\* raw_args.opt_value_from_str("--output-format"): as OptValue, and "err"
\* when the value names no format.
OptOutputFormat(v) ==
    LET o == OptValue(v, <<"--output-format">>)
    IN IF o.status = "some" /\ OutputFormatFromStr(o.value) = "Err"
       THEN [status |-> "err", value |-> <<>>, rest |-> v]
       ELSE o

\* The reads of the struct literal of parse_args, in the order it lists them.
Flag(field, keys) == [kind |-> "contains", field |-> field, keys |-> keys]

Opt(field, keys) == [kind |-> "opt_value", field |-> field, keys |-> keys]

ArgReads ==
    << Flag("all", <<"-a", "--all">>),
       Opt("color", <<"--color">>),
       Flag("all_deps", <<"--all-dependencies">>),
       Flag("build_deps", <<"--build-dependencies">>),
       Flag("dev_deps", <<"--dev-dependencies">>),
       Flag("all_features", <<"--all-features">>),
       Opt("features", <<"--features">>),
       Flag("no_default_features", <<"--no-default-features">>),
       Flag("forbid_only", <<"-f", "--forbid-only">>),
       Opt("format", <<"--format">>),
       Flag("frozen", <<"--frozen">>),
       Flag("help", <<"-h", "--help">>),
       Flag("include_tests", <<"--include-tests">>),
       Flag("invert", <<"-i", "--invert">>),
       Flag("locked", <<"--locked">>),
       Opt("manifest_path", <<"--manifest-path">>),
       Flag("no_indent", <<"--no-indent">>),
       Flag("offline", <<"--offline">>),
       Opt("package", <<"-p", "--package">>),
       Flag("prefix_depth", <<"--prefix-depth">>),
       Flag("quiet", <<"-q", "--quiet">>),
       Opt("readme_path", <<"--readme-path">>),
       Opt("section_name", <<"--section-name">>),
       Flag("update_readme", <<"--update-readme">>),
       Flag("all_targets", <<"--all-targets">>),
       Opt("target", <<"--target">>),
       Opt("unstable_flags", <<"-Z">>),
       Flag("version", <<"-V", "--version">>),
       Flag("vv", <<"-vv">>),
       Flag("v", <<"-v", "--verbose">>),
       [kind |-> "output_format", field |-> "output_format",
        keys |-> <<"--output-format">>] >>

\* The outcome of one read: what is left of the vector and, for the field,
\* whether something was found and the value taken.
ReadOne(v, r) ==
    IF r.kind = "contains"
    THEN LET c == Contains(v, r.keys)
         IN [err |-> FALSE, some |-> c.found, value |-> <<>>, rest |-> c.rest]
    ELSE LET o == IF r.kind = "output_format" THEN OptOutputFormat(v)
                  ELSE OptValue(v, r.keys)
         IN [err |-> o.status = "err", some |-> o.status = "some",
             value |-> o.value, rest |-> o.rest]

RECURSIVE ReadFrom(_, _, _)
\* The reads from the k-th on; `?` returns at the first that fails.
ReadFrom(v, k, got) ==
    IF k > Len(ArgReads) THEN [ok |-> TRUE, got |-> got]
    ELSE LET one == ReadOne(v, ArgReads[k])
         IN IF one.err THEN [ok |-> FALSE, got |-> got]
            ELSE ReadFrom(one.rest, k + 1,
                          Append(got, [some |-> one.some, value |-> one.value]))

\* The position of a field in ArgReads.
FieldAt(field) == CHOOSE k \in DOMAIN ArgReads : ArgReads[k].field = field

\* match (contains("-vv"), contains(["-v", "--verbose"]))
VerbosityOf(vv, v) ==
    IF vv THEN "Verbose" ELSE IF v THEN "Normal" ELSE "Quiet"

\* .unwrap_or(OutputFormat::Utf8)
OutputFormatOrDefault(opt) ==
    IF opt.some THEN OutputFormatFromStr(opt.value) ELSE "Utf8"

\* Faulty variant: --update-readme leaves the output format alone.
ReadmeOutputFormat_Kept(update_readme, output_format) == output_format

\* if args.readme_args.update_readme && args.output_format != GitHubMarkdown
\*     { args.output_format = OutputFormat::GitHubMarkdown }
ReadmeOutputFormat(update_readme, output_format) ==
    IF update_readme /\ output_format # "GitHubMarkdown"
    THEN "GitHubMarkdown"
    ELSE output_format

\* Option<String> as parse_features takes it.
OptionOf(opt) == [some |-> opt.some, value |-> IF opt.some THEN opt.value ELSE <<>>]

\* The struct Args built from the reads.
ArgsOf(got) ==
    LET flag(f) == got[FieldAt(f)].some
        opt(f) == got[FieldAt(f)]
    IN [all |-> flag("all"),
        color |-> opt("color"),
        deps_args |-> [all_deps |-> flag("all_deps"),
                       build_deps |-> flag("build_deps"),
                       dev_deps |-> flag("dev_deps")],
        features_args |-> [all_features |-> flag("all_features"),
                           features |-> ParseFeatures(OptionOf(opt("features"))),
                           no_default_features |-> flag("no_default_features")],
        forbid_only |-> flag("forbid_only"),
        format |-> IF opt("format").some THEN opt("format").value ELSE Str("{p}"),
        frozen |-> flag("frozen"),
        help |-> flag("help"),
        include_tests |-> flag("include_tests"),
        invert |-> flag("invert"),
        locked |-> flag("locked"),
        manifest_path |-> opt("manifest_path"),
        no_indent |-> flag("no_indent"),
        offline |-> flag("offline"),
        package |-> opt("package"),
        prefix_depth |-> flag("prefix_depth"),
        quiet |-> flag("quiet"),
        readme_args |-> [readme_path |-> opt("readme_path"),
                         section_name |-> opt("section_name"),
                         update_readme |-> flag("update_readme")],
        target_args |-> [all_targets |-> flag("all_targets"),
                         target |-> opt("target")],
        unstable_flags |-> IF opt("unstable_flags").some
                           THEN SplitOn(opt("unstable_flags").value, {" "})
                           ELSE <<>>,
        version |-> flag("version"),
        verbosity |-> VerbosityOf(flag("vv"), flag("v")),
        output_format |-> ReadmeOutputFormat(flag("update_readme"),
                                             OutputFormatOrDefault(opt("output_format")))]

\* The arguments the JSON scans run under (scan_unsafe dispatches on Json).
ScanArgs == ArgsOf(ReadFrom(<<Str("--output-format"), Str("Json")>>, 1, <<>>).got)

\* Args::parse_args: the fields are read in the order the struct literal
\* lists them, each read consuming what it matched.
ParseArgs(v) ==
    LET reads == ReadFrom(v, 1, <<>>)
    IN IF reads.ok
       THEN [ok |-> TRUE, args |-> ArgsOf(reads.got)]
       ELSE [ok |-> FALSE, args |-> ScanArgs]

\* --------------------------------------------- update_config (args.rs)
\* GlobalContext::default() before Args::update_config: configure has not been
\* called, and the shell is as cargo creates it, verbose.
DefaultConfig ==
    [called |-> FALSE, configured |-> FALSE, verbosity |-> 0,
     extra_verbose |-> FALSE, shell_verbosity |-> "Verbose",
     color_choice |-> "CargoAuto",
     frozen |-> FALSE, locked |-> FALSE, offline |-> FALSE]

\* Faulty variant: the verbosity levels are counted from Normal.
CargoConfigVerbosity_NormalZero(verbosity) ==
    IF verbosity = "Verbose" THEN 1 ELSE 0

\* match self.verbosity { Quiet => 0, Normal => 1, Verbose => 2 }
CargoConfigVerbosity(verbosity) ==
    IF verbosity = "Quiet" THEN 0 ELSE IF verbosity = "Normal" THEN 1 ELSE 2

\* What configure reads besides its arguments: whether the cargo in use
\* allows -Z flags (the nightly and dev channels do), and the values term.verbose,
\* term.quiet, term.color and net.offline of cargo's configuration files and
\* environment.
CargoEnvs ==
    [nightly_features_allowed : BOOLEAN,
     term_verbose : BOOLEAN, term_quiet : BOOLEAN,
     term_color : {[some |-> FALSE, value |-> <<>>], [some |-> TRUE, value |-> Str("never")]},
     net_offline : BOOLEAN]

\* The -Z flags cargo knows, of those of the model.
KnownUnstableFlags == {Str("unstable-options")}

\* cargo's ColorChoice for a colour, or "Err".
ColorChoiceOf(color) ==
    IF ~color.some THEN "CargoAuto"
    ELSE IF color.value = Str("always") THEN "Always"
    ELSE IF color.value = Str("never") THEN "Never"
    ELSE IF color.value = Str("auto") THEN "CargoAuto"
    ELSE "Err"

\* config.configure(verbose, quiet, color, frozen, locked, offline, ..,
\* unstable_flags, ..), in cargo's order: it refuses -Z flags off the nightly
\* and dev channels, and flags it does not know on them; it refuses --verbose
\* together with --quiet, and term.verbose together with term.quiet when
\* neither switch is given; it sets the shell's verbosity; it refuses a
\* colour other than auto, always and never. The command line takes
\* precedence over the configuration. On Err the rest of the configuration
\* stays as it was. `verbosity` records the level the call passed.
Configure(a, e) ==
    LET level == CargoConfigVerbosity(a.verbosity)
        flags_ok == \/ a.unstable_flags = <<>>
                    \/ /\ e.nightly_features_allowed
                       /\ \A i \in DOMAIN a.unstable_flags :
                              a.unstable_flags[i] \in KnownUnstableFlags
        both == \/ level > 0 /\ a.quiet
                \/ level = 0 /\ ~a.quiet /\ e.term_verbose /\ e.term_quiet
        shell == IF level > 0 THEN "Verbose"
                 ELSE IF a.quiet THEN "Quiet"
                 ELSE IF e.term_verbose THEN "Verbose"
                 ELSE IF e.term_quiet THEN "Quiet" ELSE "Normal"
        color == IF a.color.some THEN a.color ELSE e.term_color
        called == [DefaultConfig EXCEPT !.called = TRUE, !.verbosity = level]
    IN IF ~flags_ok \/ both
       THEN [ok |-> FALSE, config |-> called]
       ELSE IF ColorChoiceOf(color) = "Err"
       THEN [ok |-> FALSE, config |-> [called EXCEPT !.shell_verbosity = shell]]
       ELSE [ok |-> TRUE,
             config |-> [called |-> TRUE, configured |-> TRUE, verbosity |-> level,
                         extra_verbose |-> level >= 2,
                         shell_verbosity |-> shell,
                         color_choice |-> ColorChoiceOf(color),
                         frozen |-> a.frozen, locked |-> a.locked,
                         offline |-> a.offline \/ e.net_offline]]

VARIABLES
    raw_features,     \* the Option<String> given to parse_features
    features_args,    \* Args.features_args
    fpc,              \* how features_args was made: "start", "parsed", "literal"
    compile_options,  \* what build_compile_options returned
    config,           \* the cargo configuration, as update_config leaves it
    raw_args,         \* the argument vector given to parse_args
    args,             \* the Args in use
    parsed,           \* "none", or parse_args' "ok" / "err"
    mode,             \* "full" (scan_to_report) or "forbid" (scan_forbid_to_report)
    graph,            \* the packages of the dependency graph
    resolver,         \* what resolve_rs_file_deps answers for this workspace
    scanner,          \* what find_unsafe answers for this source tree
    pc,               \* position in the running function
    run,              \* number of the current invocation
    rs_files_used,    \* ScanDetails.rs_files_used
    geiger_context,   \* ScanDetails.geiger_context
    report,           \* the report under construction
    report_built,     \* whether a report value has been created
    todo,             \* packages package_metrics has still to yield
    result,           \* what the function returned
    prev_result,      \* what the previous invocation returned
    resolve_calls,    \* calls of resolve_rs_file_deps in this invocation
    find_calls,       \* calls of find_unsafe in this invocation
    scan_mode,        \* the ScanMode passed to find_unsafe
    stats_calls       \* (package, file set) pairs unsafe_stats was called with

vars == <<raw_features, features_args, fpc, compile_options, config, raw_args, args, parsed, mode, graph, resolver, scanner, pc, run, rs_files_used, geiger_context,
          report, report_built, todo, result, prev_result, resolve_calls,
          find_calls, scan_mode, stats_calls>>

\* What a scan reads and never writes.
env == <<raw_features, features_args, fpc, config, raw_args, args, parsed, mode, graph, resolver, scanner>>

Init ==
    /\ raw_features = [some |-> FALSE, value |-> <<>>]
    /\ features_args = DefaultFeaturesArgs
    /\ fpc = "start"
    /\ compile_options = NoCompileOptions
    /\ config = DefaultConfig
    /\ raw_args = <<>>
    /\ args = ScanArgs
    /\ parsed = "none"
    /\ mode \in {"full", "forbid"}
    /\ graph \in Graphs
    /\ resolver \in ResolverOutcomes
    /\ scanner \in ScannerOutcomes
    /\ pc = "start"
    /\ run = 1
    /\ rs_files_used = {}
    /\ geiger_context = EmptyContext
    /\ report = DefaultReport
    /\ report_built = FALSE
    /\ todo = {}
    /\ result = NoResult
    /\ prev_result = NoResult
    /\ resolve_calls = 0
    /\ find_calls = 0
    /\ scan_mode = "none"
    /\ stats_calls = {}


\* ------------------------------------------------------------- helpers
ToSet(s) == {s[i] : i \in DOMAIN s}

\* The orders in which the elements of S can be yielded, each once.
Orderings(S) == {s \in [1..Cardinality(S) -> S] : ToSet(s) = S}

\* package_metrics: the entry of the scan context for package p, if any.
PackageMetricsOption(context, p) ==
    IF p \in DOMAIN context
    THEN [some |-> TRUE, metrics |-> context[p]]
    ELSE [some |-> FALSE, metrics |-> [f \in {} |-> {}]]

\* The paths the scanner visited: the keys of every package's rs_path_to_metrics.
ScannedFiles(context) == UNION {DOMAIN context[p] : p \in DOMAIN context}

\* list_files_used_but_not_scanned: the compiled files the scanner did not visit.
ListFilesUsedButNotScanned(context, files) == files \ ScannedFiles(context)

\* unsafe_stats: the counters of the package's files, split by whether the
\* file is part of the build, and whether every file forbids unsafe code.
UnsafeStats(metrics, files) ==
    [used |-> Cardinality({f \in DOMAIN metrics : metrics[f].has_unsafe /\ f \in files}),
     unused |-> Cardinality({f \in DOMAIN metrics : metrics[f].has_unsafe /\ f \notin files}),
     forbids_unsafe |-> \A f \in DOMAIN metrics : metrics[f].forbids_unsafe]

\* serde_json::to_string(&report) for SafetyReport: the fields in their
\* order; the entries under their package identifiers, the packages without
\* metrics and the files in the orders the collections yield them, which
\* nothing under src/ fixes.
SerializeReport(r, packages_order, without_order, files_order) ==
    [packages |-> [i \in DOMAIN packages_order |->
                      <<packages_order[i], r.packages[packages_order[i]]>>],
     packages_without_metrics |-> without_order,
     used_but_not_scanned_files |-> files_order]

\* serde_json::to_string(&report) for QuickSafetyReport.
SerializeQuickReport(r, packages_order, without_order) ==
    [packages |-> [i \in DOMAIN packages_order |->
                      <<packages_order[i], r.packages[packages_order[i]]>>],
     packages_without_metrics |-> without_order]

\* Ok(ScanResult { scan_output_lines: vec![json_string], warning_count: 0 })
OkResult(json_string) ==
    [returned |-> TRUE, ok |-> TRUE, scan_output_lines |-> <<json_string>>,
     warning_count |-> 0]

\* Err(CliError)
ErrResult ==
    [returned |-> TRUE, ok |-> FALSE, scan_output_lines |-> <<>>, warning_count |-> 0]

\* Faulty variant: the package without metrics is skipped and not recorded.
InsertWithoutMetrics_Skipped(r, id) == r

\* report.packages_without_metrics.insert(package.id)
InsertWithoutMetrics(r, id) ==
    [r EXCEPT !.packages_without_metrics = @ \cup {id}]

\* Faulty variant: the entry is stored under the root package's id.
InsertPackage_RootKey(r, entry) ==
    [r EXCEPT !.packages = (RootPackageId :> entry) @@ @]

\* report.packages.insert(entry.package.id.clone(), entry)
InsertPackage(r, entry) ==
    [r EXCEPT !.packages = (entry.package :> entry) @@ @]

\* Faulty variant: any() instead of all().
ForbidsUnsafe_Any(metrics) == \E f \in DOMAIN metrics : metrics[f].forbids_unsafe

\* pack_metrics.rs_path_to_metrics.iter().all(|(_, w)| w.metrics.forbids_unsafe)
ForbidsUnsafe(metrics) == \A f \in DOMAIN metrics : metrics[f].forbids_unsafe

\* ------------------------------------------------ strings and features
\* CliFeatures::split_features: every string split on whitespace and commas,
\* the empty pieces dropped, collected into a set.
SplitFeatures(features) ==
    {f \in UNION {ToSet(SplitOn(features[i], {" ", ","})) : i \in DOMAIN features} :
        NotEmpty(f)}

\* CliFeatures::from_command_line(features, all_features, uses_default_features)
CliFeaturesFromCommandLine(features, all_features, uses_default_features) ==
    [features |-> SplitFeatures(features),
     all_features |-> all_features,
     uses_default_features |-> uses_default_features]

\* Faulty variant: no_default_features is passed on without the negation.
BuildCompileOptions_NotNegated(fargs) ==
    [built |-> TRUE,
     mode |-> [kind |-> "Check", test |-> FALSE],
     cli_features |-> CliFeaturesFromCommandLine(fargs.features, fargs.all_features,
                                                 fargs.no_default_features)]

\* build_compile_options: CompileOptions::new(config, CompileMode::Check
\* { test: false }) with cli_features from the FeaturesArgs.
BuildCompileOptions(fargs) ==
    [built |-> TRUE,
     mode |-> [kind |-> "Check", test |-> FALSE],
     cli_features |-> CliFeaturesFromCommandLine(fargs.features, fargs.all_features,
                                                 ~fargs.no_default_features)]

\* ---------------------------------------------------- scan (default.rs)
\* scan: resolve_rs_file_deps returned Ok(rs_files_used).
ResolveOk ==
    /\ pc = "start" /\ mode = "full"
    /\ resolver.ok
    /\ compile_options' = BuildCompileOptions(features_args)
    /\ resolve_calls' = resolve_calls + 1
    /\ rs_files_used' = resolver.files
    /\ pc' = "find"
    /\ UNCHANGED <<env, run, geiger_context, report, report_built, todo, result,
                   prev_result, find_calls, scan_mode, stats_calls>>

\* Faulty variant: the resolver's error is swallowed and the scan goes on with no files.
ResolveErr_Swallowed ==
    /\ pc = "start" /\ mode = "full"
    /\ ~resolver.ok
    /\ compile_options' = BuildCompileOptions(features_args)
    /\ resolve_calls' = resolve_calls + 1
    /\ rs_files_used' = {}
    /\ pc' = "find"
    /\ UNCHANGED <<env, run, geiger_context, report, report_built, todo, result,
                   prev_result, find_calls, scan_mode, stats_calls>>

\* scan: resolve_rs_file_deps returned Err; scan_to_report returns it with `?`.
ResolveErr ==
    /\ pc = "start" /\ mode = "full"
    /\ ~resolver.ok
    /\ compile_options' = BuildCompileOptions(features_args)
    /\ resolve_calls' = resolve_calls + 1
    /\ result' = ErrResult
    /\ pc' = "done"
    /\ UNCHANGED <<env, run, rs_files_used, geiger_context, report, report_built,
                   todo, prev_result, find_calls, scan_mode, stats_calls>>

\* Faulty variant: the file set is resolved again after the scan, against the scanned tree.
FindUnsafeFullOk_Reresolved ==
    /\ pc = "find" /\ mode = "full"
    /\ scanner.ok
    /\ find_calls' = find_calls + 1
    /\ scan_mode' = "Full"
    /\ geiger_context' = scanner.context
    /\ resolve_calls' = resolve_calls + 1
    /\ rs_files_used' = resolver.files \cap ScannedFiles(scanner.context)
    /\ report' = DefaultReport
    /\ report_built' = TRUE
    /\ todo' = graph
    /\ pc' = "metrics"
    /\ UNCHANGED <<env, compile_options, run, result, prev_result, stats_calls>>

\* scan: find_unsafe(.., ScanMode::Full, ..) returned Ok; scan_to_report takes
\* the ScanDetails apart and creates the default report.
FindUnsafeFullOk ==
    /\ pc = "find" /\ mode = "full"
    /\ scanner.ok
    /\ find_calls' = find_calls + 1
    /\ scan_mode' = "Full"
    /\ geiger_context' = scanner.context
    /\ report' = DefaultReport
    /\ report_built' = TRUE
    /\ todo' = graph
    /\ pc' = "metrics"
    /\ UNCHANGED <<env, compile_options, run, rs_files_used, result, prev_result, resolve_calls,
                   stats_calls>>

\* Faulty variant: the scanner's error is dropped and an empty context is reported on.
FindUnsafeFullErr_Ignored ==
    /\ pc = "find" /\ mode = "full"
    /\ ~scanner.ok
    /\ find_calls' = find_calls + 1
    /\ scan_mode' = "Full"
    /\ geiger_context' = EmptyContext
    /\ report' = DefaultReport
    /\ report_built' = TRUE
    /\ todo' = graph
    /\ pc' = "metrics"
    /\ UNCHANGED <<env, compile_options, run, rs_files_used, result, prev_result, resolve_calls,
                   stats_calls>>

\* scan: find_unsafe(.., ScanMode::Full, ..)? returned Err.
FindUnsafeFullErr ==
    /\ pc = "find" /\ mode = "full"
    /\ ~scanner.ok
    /\ find_calls' = find_calls + 1
    /\ scan_mode' = "Full"
    /\ result' = ErrResult
    /\ pc' = "done"
    /\ UNCHANGED <<env, compile_options, run, rs_files_used, geiger_context, report, report_built,
                   todo, prev_result, resolve_calls, stats_calls>>

\* scan_to_report: one iteration of the loop over package_metrics(..), for a
\* package without metrics.
ReportPackageNone(p) ==
    /\ pc = "metrics" /\ mode = "full"
    /\ p \in todo
    /\ ~PackageMetricsOption(geiger_context, p).some
    /\ report' = InsertWithoutMetrics(report, p)
    /\ todo' = todo \ {p}
    /\ UNCHANGED <<env, compile_options, pc, run, rs_files_used, geiger_context, report_built, result,
                   prev_result, resolve_calls, find_calls, scan_mode, stats_calls>>

\* scan_to_report: one iteration of the loop, for a package with metrics.
ReportPackageSome(p) ==
    /\ pc = "metrics" /\ mode = "full"
    /\ p \in todo
    /\ PackageMetricsOption(geiger_context, p).some
    /\ stats_calls' = stats_calls \cup {<<p, rs_files_used>>}
    /\ report' = InsertPackage(report,
                    [package |-> p,
                     unsafety |-> UnsafeStats(PackageMetricsOption(geiger_context, p).metrics,
                                              rs_files_used)])
    /\ todo' = todo \ {p}
    /\ UNCHANGED <<env, compile_options, pc, run, rs_files_used, geiger_context, report_built, result,
                   prev_result, resolve_calls, find_calls, scan_mode>>

\* Faulty variant: the first path of the list is lost.
CollectFiles_SkipFirst(list) == {list[i] : i \in DOMAIN list \ {1}}

\* list_files_used_but_not_scanned(..).into_iter().collect()
CollectFiles(list) == ToSet(list)

\* scan_to_report: after the loop, the coverage cross-check, the
\* serialization and the return.
FinishReport ==
    /\ pc = "metrics" /\ mode = "full"
    /\ todo = {}
    /\ \E list \in Orderings(ListFilesUsedButNotScanned(geiger_context, rs_files_used)) :
          report' = [report EXCEPT !.used_but_not_scanned_files = CollectFiles(list)]
    /\ \E packages_order \in Orderings(DOMAIN report.packages),
          without_order \in Orderings(report.packages_without_metrics),
          files_order \in Orderings(report'.used_but_not_scanned_files) :
          result' = OkResult(SerializeReport(report', packages_order, without_order,
                                             files_order))
    /\ pc' = "done"
    /\ UNCHANGED <<env, compile_options, run, rs_files_used, geiger_context, report_built, todo,
                   prev_result, resolve_calls, find_calls, scan_mode, stats_calls>>

\* ----------------------------------------- scan_forbid_to_report (forbid.rs)
\* Faulty variant: the quick scan resolves the build and scans in full mode.
FindUnsafeForbidOk_FullMode ==
    /\ pc = "start" /\ mode = "forbid"
    /\ scanner.ok /\ resolver.ok
    /\ find_calls' = find_calls + 1
    /\ resolve_calls' = resolve_calls + 1
    /\ scan_mode' = "Full"
    /\ geiger_context' = scanner.context
    /\ report' = DefaultReport
    /\ report_built' = TRUE
    /\ todo' = graph
    /\ pc' = "metrics"
    /\ UNCHANGED <<env, compile_options, run, rs_files_used, result, prev_result, stats_calls>>

\* find_unsafe(.., ScanMode::EntryPointsOnly, ..) returned Ok.
FindUnsafeForbidOk ==
    /\ pc = "start" /\ mode = "forbid"
    /\ scanner.ok
    /\ find_calls' = find_calls + 1
    /\ scan_mode' = "EntryPointsOnly"
    /\ geiger_context' = scanner.context
    /\ report' = DefaultReport
    /\ report_built' = TRUE
    /\ todo' = graph
    /\ pc' = "metrics"
    /\ UNCHANGED <<env, compile_options, run, rs_files_used, result, prev_result, resolve_calls,
                   stats_calls>>

\* find_unsafe(.., ScanMode::EntryPointsOnly, ..)? returned Err.
FindUnsafeForbidErr ==
    /\ pc = "start" /\ mode = "forbid"
    /\ ~scanner.ok
    /\ find_calls' = find_calls + 1
    /\ scan_mode' = "EntryPointsOnly"
    /\ result' = ErrResult
    /\ pc' = "done"
    /\ UNCHANGED <<env, compile_options, run, rs_files_used, geiger_context, report, report_built,
                   todo, prev_result, resolve_calls, stats_calls>>

\* Faulty variant: a package without metrics gets the verdict of an empty
\* PackageMetrics (unwrap_or_default), which all() makes true.
QuickPackageNone_Defaulted(p) ==
    /\ pc = "metrics" /\ mode = "forbid"
    /\ p \in todo
    /\ ~PackageMetricsOption(geiger_context, p).some
    /\ report' = InsertPackage(report,
                    [package |-> p,
                     forbids_unsafe |->
                         ForbidsUnsafe(PackageMetricsOption(geiger_context, p).metrics)])
    /\ todo' = todo \ {p}
    /\ UNCHANGED <<env, compile_options, pc, run, rs_files_used, geiger_context, report_built, result,
                   prev_result, resolve_calls, find_calls, scan_mode, stats_calls>>

\* One iteration of the loop over package_metrics(..), package without metrics.
QuickPackageNone(p) ==
    /\ pc = "metrics" /\ mode = "forbid"
    /\ p \in todo
    /\ ~PackageMetricsOption(geiger_context, p).some
    /\ report' = InsertWithoutMetrics(report, p)
    /\ todo' = todo \ {p}
    /\ UNCHANGED <<env, compile_options, pc, run, rs_files_used, geiger_context, report_built, result,
                   prev_result, resolve_calls, find_calls, scan_mode, stats_calls>>

\* One iteration of the loop, package with metrics.
QuickPackageSome(p) ==
    /\ pc = "metrics" /\ mode = "forbid"
    /\ p \in todo
    /\ PackageMetricsOption(geiger_context, p).some
    /\ report' = InsertPackage(report,
                    [package |-> p,
                     forbids_unsafe |->
                         ForbidsUnsafe(PackageMetricsOption(geiger_context, p).metrics)])
    /\ todo' = todo \ {p}
    /\ UNCHANGED <<env, compile_options, pc, run, rs_files_used, geiger_context, report_built, result,
                   prev_result, resolve_calls, find_calls, scan_mode, stats_calls>>

\* After the loop: the serialization and the return.
FinishQuickReport ==
    /\ pc = "metrics" /\ mode = "forbid"
    /\ todo = {}
    /\ \E packages_order \in Orderings(DOMAIN report.packages),
          without_order \in Orderings(report.packages_without_metrics) :
          result' = OkResult(SerializeQuickReport(report, packages_order, without_order))
    /\ pc' = "done"
    /\ UNCHANGED <<env, compile_options, run, rs_files_used, geiger_context, report, report_built, todo,
                   prev_result, resolve_calls, find_calls, scan_mode, stats_calls>>

\* The tool is invoked again on the unchanged source tree and build plan.
Rerun ==
    /\ pc = "done"
    /\ run < MaxRuns
    /\ run' = run + 1
    /\ prev_result' = result
    /\ pc' = "start"
    /\ rs_files_used' = {}
    /\ geiger_context' = EmptyContext
    /\ report' = DefaultReport
    /\ report_built' = FALSE
    /\ todo' = {}
    /\ result' = NoResult
    /\ resolve_calls' = 0
    /\ find_calls' = 0
    /\ scan_mode' = "none"
    /\ stats_calls' = {}
    /\ compile_options' = NoCompileOptions
    /\ UNCHANGED env

Next ==
    \/ ResolveOk
    \/ ResolveErr
    \/ FindUnsafeFullOk
    \/ FindUnsafeFullErr
    \/ \E p \in PackageIds : ReportPackageNone(p)
    \/ \E p \in PackageIds : ReportPackageSome(p)
    \/ FinishReport
    \/ FindUnsafeForbidOk
    \/ FindUnsafeForbidErr
    \/ \E p \in PackageIds : QuickPackageNone(p)
    \/ \E p \in PackageIds : QuickPackageSome(p)
    \/ FinishQuickReport
    \/ Rerun

Spec == Init /\ [][Next]_vars


\* ------------------------------------------------ parse_args (args.rs)
\* parse_args returns Ok(args).
ParseArgsOk ==
    /\ parsed = "none"
    /\ ParseArgs(raw_args).ok
    /\ args' = ParseArgs(raw_args).args
    /\ parsed' = "ok"
    /\ UNCHANGED <<raw_features, features_args, fpc, compile_options, config, raw_args, mode, graph, resolver, scanner, pc, run, rs_files_used,
                   geiger_context, report, report_built, todo, result, prev_result,
                   resolve_calls, find_calls, scan_mode, stats_calls>>

\* parse_args returns Err: `?` on one of the opt_value_from_str reads.
ParseArgsErr ==
    /\ parsed = "none"
    /\ ~ParseArgs(raw_args).ok
    /\ parsed' = "err"
    /\ UNCHANGED <<raw_features, features_args, fpc, compile_options, config, raw_args, args, mode, graph, resolver, scanner, pc, run,
                   rs_files_used, geiger_context, report, report_built, todo, result,
                   prev_result, resolve_calls, find_calls, scan_mode, stats_calls>>

\* Args::update_config returns Ok(()): configure accepted the arguments.
UpdateConfigOk ==
    /\ parsed = "ok"
    /\ ~config.called
    /\ \E e \in CargoEnvs :
          /\ Configure(args, e).ok
          /\ config' = Configure(args, e).config
    /\ UNCHANGED <<raw_features, features_args, fpc, compile_options, raw_args, args, parsed, mode, graph, resolver, scanner, pc, run,
                   rs_files_used, geiger_context, report, report_built, todo, result,
                   prev_result, resolve_calls, find_calls, scan_mode, stats_calls>>

\* Args::update_config returns Err: `?` on config.configure(..).
UpdateConfigErr ==
    /\ parsed = "ok"
    /\ ~config.called
    /\ \E e \in CargoEnvs :
          /\ ~Configure(args, e).ok
          /\ config' = Configure(args, e).config
    /\ UNCHANGED <<raw_features, features_args, fpc, compile_options, raw_args, args, parsed, mode, graph, resolver, scanner, pc, run,
                   rs_files_used, geiger_context, report, report_built, todo, result,
                   prev_result, resolve_calls, find_calls, scan_mode, stats_calls>>

InitArgs ==
    /\ raw_features = [some |-> FALSE, value |-> <<>>]
    /\ features_args = DefaultFeaturesArgs
    /\ fpc = "start"
    /\ compile_options = NoCompileOptions
    /\ config = DefaultConfig
    /\ raw_args \in ArgVectors
    /\ args = ScanArgs
    /\ parsed = "none"
    /\ mode = "full"
    /\ graph = {RootPackageId}
    /\ resolver = [ok |-> FALSE, files |-> {}]
    /\ scanner = [ok |-> FALSE, context |-> EmptyContext]
    /\ pc = "start"
    /\ run = 1
    /\ rs_files_used = {}
    /\ geiger_context = EmptyContext
    /\ report = DefaultReport
    /\ report_built = FALSE
    /\ todo = {}
    /\ result = NoResult
    /\ prev_result = NoResult
    /\ resolve_calls = 0
    /\ find_calls = 0
    /\ scan_mode = "none"
    /\ stats_calls = {}

NextArgs ==
    \/ ParseArgsOk
    \/ ParseArgsErr
    \/ UpdateConfigOk
    \/ UpdateConfigErr

SpecArgs == InitArgs /\ [][NextArgs]_vars

\* ------------------------------- parse_features, build_compile_options
\* The scan variables, which these functions leave alone.
scan_state == <<mode, graph, resolver, scanner, pc, run, rs_files_used, geiger_context,
                report, report_built, todo, result, prev_result, resolve_calls,
                find_calls, scan_mode, stats_calls>>

\* parse_args: features: parse_features(raw_args.opt_value_from_str("--features")?)
ApplyParseFeatures ==
    /\ fpc = "start"
    /\ features_args' = [features_args EXCEPT !.features = ParseFeatures(raw_features)]
    /\ fpc' = "parsed"
    /\ UNCHANGED <<raw_features, compile_options, config, raw_args, args, parsed,
                   scan_state>>

\* A FeaturesArgs written out with one feature string, as the test of
\* build_compile_options does.
FeaturesArgsLiteral ==
    /\ fpc = "start"
    /\ raw_features.some
    /\ features_args' = [features_args EXCEPT !.features = <<raw_features.value>>]
    /\ fpc' = "literal"
    /\ UNCHANGED <<raw_features, compile_options, config, raw_args, args, parsed,
                   scan_state>>

\* build_compile_options(&args.features_args, config)
ApplyBuildCompileOptions ==
    /\ fpc \in {"parsed", "literal"}
    /\ ~compile_options.built
    /\ compile_options' = BuildCompileOptions(features_args)
    /\ UNCHANGED <<raw_features, features_args, fpc, config, raw_args, args, parsed,
                   scan_state>>

InitFeatures ==
    /\ raw_features \in RawFeatures
    /\ features_args \in {[all_features |-> a, features |-> <<>>, no_default_features |-> n] :
                             a \in BOOLEAN, n \in BOOLEAN}
    /\ fpc = "start"
    /\ compile_options = NoCompileOptions
    /\ config = DefaultConfig
    /\ raw_args = <<>>
    /\ args = ScanArgs
    /\ parsed = "none"
    /\ mode = "full"
    /\ graph = {RootPackageId}
    /\ resolver = [ok |-> FALSE, files |-> {}]
    /\ scanner = [ok |-> FALSE, context |-> EmptyContext]
    /\ pc = "start"
    /\ run = 1
    /\ rs_files_used = {}
    /\ geiger_context = EmptyContext
    /\ report = DefaultReport
    /\ report_built = FALSE
    /\ todo = {}
    /\ result = NoResult
    /\ prev_result = NoResult
    /\ resolve_calls = 0
    /\ find_calls = 0
    /\ scan_mode = "none"
    /\ stats_calls = {}

NextFeatures ==
    \/ ApplyParseFeatures
    \/ FeaturesArgsLiteral
    \/ ApplyBuildCompileOptions

SpecFeatures == InitFeatures /\ [][NextFeatures]_vars

\* ------------------------------------------------------------- properties
\* The files of package p in what the scanner returned.
FilesOf(p) == IF p \in DOMAIN scanner.context THEN DOMAIN scanner.context[p] ELSE {}

\* The quick verdict of package p in the report is true.
VerdictTrue(p) == p \in DOMAIN report.packages /\ report.packages[p].forbids_unsafe

QuickDone == mode = "forbid" /\ pc = "done" /\ result.ok

FullDone == mode = "full" /\ pc = "done" /\ result.ok

\* C1: in the finished quick report, a package's verdict is true iff every
\* file the scan context holds for it forbids unsafe code and the package is
\* not in packages_without_metrics.
C1_QuickVerdictIff ==
    QuickDone =>
        \A p \in graph :
            VerdictTrue(p) <=>
                /\ \A f \in FilesOf(p) : scanner.context[p][f].forbids_unsafe
                /\ p \notin report.packages_without_metrics

\* A quick report with a true verdict over two files and a false verdict.
C1_Witness ==
    /\ QuickDone
    /\ \E p \in graph : VerdictTrue(p) /\ Cardinality(FilesOf(p)) >= 2
    /\ \E q \in graph : q \in DOMAIN report.packages /\ ~report.packages[q].forbids_unsafe

\* C2: in both reports, once the loop has passed a package for which
\* package_metrics yields None, the package is in packages_without_metrics,
\* has no entry in packages (nor in the serialized packages), and unsafe_stats
\* was not called for it.
C2_WithoutMetricsExcluded ==
    (report_built /\ pc \in {"metrics", "done"}) =>
        \A p \in graph \ todo :
            p \notin DOMAIN scanner.context =>
                /\ p \in report.packages_without_metrics
                /\ p \notin DOMAIN report.packages
                /\ \A c \in stats_calls : c[1] # p
                /\ result.ok =>
                      \A i \in DOMAIN result.scan_output_lines[1].packages :
                          result.scan_output_lines[1].packages[i][1] # p

\* A full report with one package without metrics beside one with an entry.
C2_Witness ==
    /\ FullDone
    /\ \E p \in graph : p \notin DOMAIN scanner.context
                        /\ p \in report.packages_without_metrics
    /\ DOMAIN report.packages # {}

\* C3: in the finished full report used_but_not_scanned_files is the compiled
\* file set minus the paths of the scan context.
C3_UsedButNotScanned ==
    FullDone =>
        /\ report.used_but_not_scanned_files
              = resolver.files \ UNION {FilesOf(p) : p \in PackageIds}
        /\ ToSet(result.scan_output_lines[1].used_but_not_scanned_files)
              = resolver.files \ UNION {FilesOf(p) : p \in PackageIds}

\* A full report listing a gap while another compiled file was visited.
C3_Witness ==
    /\ FullDone
    /\ report.used_but_not_scanned_files # {}
    /\ resolver.files \cap UNION {FilesOf(p) : p \in PackageIds} # {}

\* C4: when the resolver fails, the full scan never starts the scanner, never
\* builds a report, and returns an error with no output lines.
C4_ResolverFailureAborts ==
    (mode = "full" /\ ~resolver.ok) =>
        /\ find_calls = 0
        /\ scan_mode = "none"
        /\ ~report_built
        /\ result.scan_output_lines = <<>>
        /\ pc \in {"start", "done"}
        /\ pc = "done" => (result.returned /\ ~result.ok)

\* The full scan has returned the resolver's error.
C4_Witness ==
    mode = "full" /\ ~resolver.ok /\ pc = "done" /\ result.returned /\ ~result.ok

\* C5 as stated: whenever the resolver succeeds, the full scan returns Ok with
\* one report line, whatever the scanner encounters.
C5_FailsOnlyIfResolverFailed ==
    (mode = "full" /\ pc = "done" /\ resolver.ok) =>
        (result.ok /\ Len(result.scan_output_lines) = 1)

\* C5 amended: the full scan returns Ok, with one report line, exactly when
\* both the resolver and find_unsafe return Ok; it returns an error with no
\* line when either fails.
C5_OkIffResolverAndScannerOk ==
    (mode = "full" /\ pc = "done") =>
        /\ result.returned
        /\ result.ok <=> (resolver.ok /\ scanner.ok)
        /\ Len(result.scan_output_lines) = (IF result.ok THEN 1 ELSE 0)
        /\ result.ok => report_built

\* A full scan whose resolver and scanner both succeeded has emitted a report.
C5_Witness ==
    /\ FullDone /\ resolver.ok /\ scanner.ok /\ report_built
    /\ Len(result.scan_output_lines) = 1

\* C6: the resolver is called exactly once per full scan, before the scanner
\* starts and before the cross-check, and the file set it returned is the one
\* unsafe_stats and the cross-check use.
C6_ResolveOnceAndFrozen ==
    mode = "full" =>
        /\ resolve_calls <= 1
        /\ find_calls <= resolve_calls
        /\ pc # "start" => resolve_calls = 1
        /\ pc \in {"find", "metrics"} => rs_files_used = resolver.files
        /\ \A c \in stats_calls : c[2] = resolver.files
        /\ FullDone =>
              /\ rs_files_used = resolver.files
              /\ report.used_but_not_scanned_files \subseteq resolver.files

\* A finished full scan that used a non-empty file set in unsafe_stats.
C6_Witness ==
    FullDone /\ stats_calls # {} /\ resolver.files # {} /\ resolve_calls = 1

\* C7: the quick scan never calls the resolver, scans in EntryPointsOnly
\* mode, and succeeds exactly when the scanner does, whatever the resolver
\* would answer; the full scan scans in Full mode.
C7_QuickNeverBuilds ==
    /\ mode = "forbid" =>
          /\ resolve_calls = 0
          /\ rs_files_used = {}
          /\ stats_calls = {}
          /\ scan_mode \in {"none", "EntryPointsOnly"}
          /\ pc # "start" => (find_calls = 1 /\ scan_mode = "EntryPointsOnly")
          /\ pc = "done" => result.ok = scanner.ok
    /\ mode = "full" =>
          /\ scan_mode \in {"none", "Full"}
          /\ find_calls > 0 => scan_mode = "Full"

\* A quick report produced although no compile plan can be produced.
C7_Witness ==
    QuickDone /\ ~resolver.ok /\ scan_mode = "EntryPointsOnly"

HasArg(t) == \E i \in DOMAIN raw_args : raw_args[i] = Str(t)

\* The keys of the options that take a value, and of the switches.
ValueOptions ==
    {Str(key) : key \in UNION {ToSet(ArgReads[k].keys) :
                        k \in {j \in DOMAIN ArgReads : ArgReads[j].kind # "contains"}}}

Switches ==
    {Str(key) : key \in UNION {ToSet(ArgReads[k].keys) :
                        k \in {j \in DOMAIN ArgReads : ArgReads[j].kind = "contains"}}}

\* A token in the place of a switch: it does not follow an option that takes
\* a value.
AtSwitchPlace(i) == i = 1 \/ raw_args[i - 1] \notin ValueOptions

GivenAsSwitch(t) == \E i \in DOMAIN raw_args : raw_args[i] = Str(t) /\ AtSwitchPlace(i)

\* Every option of the vector is followed by a word that is neither a switch
\* nor an option.
WellFormed(v) ==
    \A i \in DOMAIN v :
        v[i] \in ValueOptions => i < Len(v) /\ v[i + 1] \notin (ValueOptions \cup Switches)

\* The format named after the first --output-format of the vector.
WordAfterOutputFormat(v) ==
    OutputFormatFromStr(v[IndexOf(v, <<"--output-format">>) + 1])

\* C10: for every accepted argument vector, output_format is GitHubMarkdown
\* when --update-readme is given, and otherwise the format given with
\* --output-format, or Utf8 when that option is absent. The code breaks it:
\* an option read before --update-readme takes the switch as its value.
C10_OutputFormat ==
    parsed = "ok" =>
        /\ GivenAsSwitch("--update-readme") => args.output_format = "GitHubMarkdown"
        /\ (~HasArg("--update-readme") /\ ~HasArg("--output-format"))
              => args.output_format = "Utf8"
        /\ (/\ ~HasArg("--update-readme")
            /\ HasArg("--output-format")
            /\ AtSwitchPlace(IndexOf(raw_args, <<"--output-format">>))
            /\ IndexOf(raw_args, <<"--output-format">>) < Len(raw_args)
            /\ WordAfterOutputFormat(raw_args) # "Err")
              => args.output_format = WordAfterOutputFormat(raw_args)

\* What holds of output_format on the vectors in which every option has a
\* value of its own.
OutputFormatWhenWellFormed ==
    (parsed = "ok" /\ WellFormed(raw_args)) =>
        args.output_format =
            (IF HasArg("--update-readme") THEN "GitHubMarkdown"
             ELSE IF HasArg("--output-format") THEN WordAfterOutputFormat(raw_args)
             ELSE "Utf8")

\* --update-readme with --output-format Ascii has been parsed.
OutputFormatWhenWellFormed_Witness ==
    /\ parsed = "ok" /\ WellFormed(raw_args)
    /\ HasArg("--update-readme") /\ HasArg("--output-format") /\ HasArg("Ascii")
    /\ args.output_format = "GitHubMarkdown"


\* The verbosity the switches of the vector ask for.
AskedVerbosity ==
    IF HasArg("-vv") THEN "Verbose"
    ELSE IF HasArg("-v") \/ HasArg("--verbose") THEN "Normal" ELSE "Quiet"

\* The level the claim gives for each verbosity.
LevelOf == [Quiet |-> 0, Normal |-> 1, Verbose |-> 2]

\* C11: for every accepted argument vector, verbosity is Verbose when -vv is
\* given, Normal when -v or --verbose is given without -vv, and Quiet
\* otherwise; update_config passes 2, 1 and 0 for them to the cargo
\* configuration. The code breaks it: --target and -Z, read before the
\* verbosity switches, take one of them as their value.
C11_Verbosity ==
    parsed = "ok" =>
        /\ GivenAsSwitch("-vv") => args.verbosity = "Verbose"
        /\ (~HasArg("-vv") /\ (GivenAsSwitch("-v") \/ GivenAsSwitch("--verbose")))
              => args.verbosity = "Normal"
        /\ (~HasArg("-vv") /\ ~HasArg("-v") /\ ~HasArg("--verbose"))
              => args.verbosity = "Quiet"
        /\ config.called => config.verbosity = LevelOf[args.verbosity]

\* What holds of verbosity on the vectors in which every option has a value
\* of its own, and of the level update_config passes.
VerbosityWhenWellFormed ==
    /\ (parsed = "ok" /\ WellFormed(raw_args)) => args.verbosity = AskedVerbosity
    /\ config.called => config.verbosity = LevelOf[args.verbosity]

\* update_config has passed level 2 for a vector holding both -vv and -v.
VerbosityWhenWellFormed_Witness ==
    /\ parsed = "ok" /\ config.configured /\ WellFormed(raw_args)
    /\ HasArg("-vv") /\ HasArg("-v")
    /\ args.verbosity = "Verbose" /\ config.verbosity = 2


\* The input string of parse_features; absent counts as empty.
RawValue == IF raw_features.some THEN raw_features.value ELSE <<>>

\* Whether position i of str is a space to drop: a leading one, a trailing
\* one, or one followed by another space.
DroppedSpace(str, i) ==
    /\ str[i] = " "
    /\ \/ \A j \in 1..i : str[j] = " "
       \/ \A j \in i..Len(str) : str[j] = " "
       \/ str[i + 1] = " "

RECURSIVE KeptFrom(_, _)
\* str from position i on, without its dropped spaces.
KeptFrom(str, i) ==
    IF i > Len(str) THEN <<>>
    ELSE (IF DroppedSpace(str, i) THEN <<>> ELSE <<str[i]>>) \o KeptFrom(str, i + 1)

RECURSIVE JoinWithSpaces(_)
\* The strings of a list, concatenated with single spaces between them.
JoinWithSpaces(list) ==
    IF list = <<>> THEN <<>>
    ELSE IF Len(list) = 1 THEN list[1]
    ELSE list[1] \o <<" ">> \o JoinWithSpaces(Tail(list))

\* C12: the result of parse_features holds no empty string and no string with
\* a space, is the empty list for an absent and for an empty input, and joined
\* with single spaces gives the input without its leading, trailing and
\* repeated spaces (so the tokens keep their order).
C12_ParseFeatures ==
    fpc = "parsed" =>
        /\ \A i \in DOMAIN features_args.features :
              /\ features_args.features[i] # <<>>
              /\ \A k \in DOMAIN features_args.features[i] :
                    features_args.features[i][k] # " "
        /\ RawValue = <<>> => features_args.features = <<>>
        /\ JoinWithSpaces(features_args.features) = KeptFrom(RawValue, 1)

\* Two features parsed from a string with a repeated space.
C12_Witness ==
    /\ fpc = "parsed"
    /\ Len(features_args.features) = 2
    /\ \E i \in 1..(Len(RawValue) - 1) : RawValue[i] = " " /\ RawValue[i + 1] = " "

\* C13: build_compile_options requests CompileMode::Check with test = false,
\* and its feature selection has all_features as given, uses_default_features
\* the negation of no_default_features, and the feature set that the feature
\* strings give whatever the two flags are.
C13_BuildCompileOptions ==
    compile_options.built =>
        /\ compile_options.mode = [kind |-> "Check", test |-> FALSE]
        /\ compile_options.cli_features.all_features = features_args.all_features
        /\ compile_options.cli_features.uses_default_features
              = ~features_args.no_default_features
        /\ compile_options.cli_features.features
              = CliFeaturesFromCommandLine(features_args.features, FALSE, FALSE).features
        /\ \A a \in BOOLEAN, n \in BOOLEAN :
              BuildCompileOptions([features_args EXCEPT !.all_features = a,
                                                        !.no_default_features = n])
                  .cli_features.features
              = compile_options.cli_features.features

\* Options built from parsed features with both flags set.
C13_Witness ==
    /\ compile_options.built /\ fpc = "parsed"
    /\ features_args.all_features /\ features_args.no_default_features
    /\ Cardinality(compile_options.cli_features.features) >= 2
    /\ ~compile_options.cli_features.uses_default_features


\* C14: in every report a scan returns, the keys of packages and the set
\* packages_without_metrics are disjoint and together are the packages that
\* package_metrics yielded, every entry is stored under the id of its own
\* package, and the ScanResult holds one output line and warning_count 0.
C14_ReportPartition ==
    (pc = "done" /\ result.ok) =>
        /\ DOMAIN report.packages \cap report.packages_without_metrics = {}
        /\ DOMAIN report.packages \cup report.packages_without_metrics = graph
        /\ \A p \in DOMAIN report.packages : report.packages[p].package = p
        /\ \A i \in DOMAIN result.scan_output_lines[1].packages :
              result.scan_output_lines[1].packages[i][1]
                  = result.scan_output_lines[1].packages[i][2].package
        /\ Len(result.scan_output_lines) = 1
        /\ result.warning_count = 0

\* A returned quick report with an entry for a package other than the root
\* and a package without metrics.
C14_Witness ==
    /\ QuickDone
    /\ \E p \in DOMAIN report.packages : p # RootPackageId
    /\ report.packages_without_metrics # {}

====
